---- MODULE Spec2Model ----
(***************************************************************************)
(* Model of src/src/index.ts: the TaggedError factory, the class it        *)
(* returns, and the JavaScript object semantics its constructor relies on  *)
(* (own properties, prototype chain, Object.assign, Object.setPrototypeOf).*)
(***************************************************************************)
EXTENDS Integers, Sequences, FiniteSets, TLC

\* ---- bounds of the exploration ----
\* the calling program performs at most MaxOps operations in all
MaxOps == 5

\* ---- inputs ----
Labels == {"A", "B"}
Keys == {"_tag", "name", "message", "status", "__proto__"}
\* "null" stands for the JavaScript value null; "x" is the value a mapping
\* literal gives a key and "y" the value a later assignment gives it.  Only
\* __proto__ tells null from other values, so it alone is given null
PayloadVal(k) == IF k = "__proto__" THEN "null" ELSE "x"
WriteVal(k) == IF k = "__proto__" THEN "null" ELSE "y"
Targets == {"ES5", "ES2015"}

\* ---- prototype objects: a class id c >= 1 names classes[c].prototype ----
ErrorClass == 0
ObjectProto == -1
NullProto == -2
NoArgs == 0

VARIABLES classes, ctors, heap, maps, insts, writes
vars == <<classes, ctors, heap, maps, insts, writes>>

Ops == Len(classes) + Len(heap) + writes

\* ---- host object semantics ----

\* the classes whose prototype is on the chain that starts at prototype p
RECURSIVE ProtoChain(_, _)
ProtoChain(cs, p) ==
  IF p = NullProto \/ p = ObjectProto THEN {}
  ELSE IF p = ErrorClass THEN {ErrorClass}
  ELSE {p} \cup ProtoChain(cs, cs[p].parent)

InstanceOf(cs, o, c) == c \in ProtoChain(cs, o.proto)

\* the property read o[k] for k other than __proto__: own value, else the
\* value inherited from Error.prototype, else undefined
Get(cs, o, k) ==
  IF k \in DOMAIN o.own THEN o.own[k]
  ELSE IF ErrorClass \in ProtoChain(cs, o.proto) /\ k = "name" THEN "Error"
  ELSE IF ErrorClass \in ProtoChain(cs, o.proto) /\ k = "message" THEN ""
  ELSE "undefined"

\* ordinary assignment o[k] = v ([[Set]]): __proto__ is an accessor inherited
\* from Object.prototype whose setter changes the prototype when v is an
\* object or null and ignores primitives; every other key becomes an own
\* writable data property
Set(o, k, v) ==
  IF k = "__proto__" /\ o.proto # NullProto
  THEN [o EXCEPT !.proto = IF v = "null" THEN NullProto ELSE @]
  ELSE [o EXCEPT !.own = [j \in DOMAIN o.own \cup {k} |->
                            IF j = k THEN v ELSE o.own[j]]]

DeleteKey(o, k) ==
  [o EXCEPT !.own = [j \in DOMAIN o.own \ {k} |-> o.own[j]]]

RECURSIVE AssignKeys(_, _, _)
AssignKeys(o, src, ks) ==
  IF ks = {} THEN o
  ELSE LET k == CHOOSE j \in ks : TRUE
       IN AssignKeys(Set(o, k, src[k]), src, ks \ {k})

ObjectAssign(o, src) == AssignKeys(o, src.own, DOMAIN src.own)

SetPrototypeOfSkipped(o, p) == o

SetPrototypeOf(o, p) == [o EXCEPT !.proto = p]

\* ---- the class returned by TaggedError(tag) ----

\* super(): the Error object; a downlevelled (ES5) build gets it from
\* Error.call(this), whose prototype is Error.prototype, a native-class
\* build from new.target.prototype
SuperError(newTarget, es) ==
  [own |-> ("stack" :> "trace"),
   proto |-> IF es = "ES5" THEN ErrorClass ELSE newTarget]

TagField(o, tag) ==
  [o EXCEPT !.own = [j \in DOMAIN o.own \cup {"_tag"} |->
                       IF j = "_tag" THEN tag ELSE o.own[j]]]

NameAssignSkipped(o, tag) == o

NameAssign(o, tag) == Set(o, "name", tag)

\* the payload copied before the field initialiser and the name assignment
TaggedErrorClassAssignFirst(self, tag, newTarget, args, es) ==
  LET o0 == SuperError(newTarget, es)
      o1 == IF Len(args) > 0 THEN ObjectAssign(o0, args[1]) ELSE o0
      o2 == TagField(o1, tag)
      o3 == NameAssign(o2, tag)
  IN SetPrototypeOf(o3, self)

\* args is the argument list: <<>> for new C(), <<mapping>> for new C(mapping)
TaggedErrorClass(self, tag, newTarget, args, es) ==
  LET o0 == SuperError(newTarget, es)
      o1 == TagField(o0, tag)
      o2 == NameAssign(o1, tag)
      o3 == IF Len(args) > 0 THEN ObjectAssign(o2, args[1]) ELSE o2
  IN SetPrototypeOf(o3, self)

\* the factory-made class that c is or extends, whose constructor runs
RECURSIVE BaseOf(_, _)
BaseOf(cs, c) == IF cs[c].parent = ErrorClass THEN c ELSE BaseOf(cs, cs[c].parent)

\* the constructor decorating and returning the mapping it was given
ConstructInPlace(h, cs, c, m, es) ==
  LET b == BaseOf(cs, c)
      o == TaggedErrorClass(b, cs[b].tag, c, IF m = NoArgs THEN <<>> ELSE <<h[m]>>, es)
  IN IF m = NoArgs THEN [heap |-> Append(h, o), res |-> Len(h) + 1]
     ELSE [heap |-> [h EXCEPT ![m] = o], res |-> m]

\* new c(args): a fresh object at a fresh address
Construct(h, cs, c, m, es) ==
  LET b == BaseOf(cs, c)
      o == TaggedErrorClass(b, cs[b].tag, c, IF m = NoArgs THEN <<>> ELSE <<h[m]>>, es)
  IN [heap |-> Append(h, o), res |-> Len(h) + 1]

\* a factory that caches the class it made for a tag
FactoryMemo(cs, tag) ==
  IF \E c \in DOMAIN cs : cs[c].tag = tag /\ cs[c].parent = ErrorClass
  THEN [classes |-> cs,
        res |-> CHOOSE c \in DOMAIN cs : cs[c].tag = tag /\ cs[c].parent = ErrorClass]
  ELSE [classes |-> Append(cs, [tag |-> tag, parent |-> ErrorClass]),
        res |-> Len(cs) + 1]

\* TaggedError(tag): a class expression evaluated anew at each call
Factory(cs, tag) ==
  [classes |-> Append(cs, [tag |-> tag, parent |-> ErrorClass]),
   res |-> Len(cs) + 1]

\* the mapping literals the caller writes: {} and {k: v} (an own __proto__ key
\* as JSON.parse or a computed key makes it); larger mappings are built from
\* these by assignment
Payloads == {<<>>} \cup {(k :> PayloadVal(k)) : k \in Keys}

\* ---- state machine ----

Init ==
  /\ classes = <<>>
  /\ ctors = <<>>
  /\ heap = <<>>
  /\ maps = {}
  /\ insts = <<>>
  /\ writes = 0

TaggedError(tag) ==
  /\ Ops < MaxOps
  /\ LET r == Factory(classes, tag)
     IN /\ classes' = r.classes
        /\ ctors' = Append(ctors, r.res)
  /\ UNCHANGED <<heap, maps, insts, writes>>

\* class S extends c {}
Extends(c) ==
  /\ Ops < MaxOps
  /\ classes' = Append(classes, [tag |-> classes[c].tag, parent |-> c])
  /\ UNCHANGED <<ctors, heap, maps, insts, writes>>

\* the caller builds a payload mapping
Literal(M) ==
  /\ Ops < MaxOps
  /\ heap' = Append(heap, [own |-> M, proto |-> ObjectProto])
  /\ maps' = maps \cup {Len(heap) + 1}
  /\ UNCHANGED <<classes, ctors, insts, writes>>

New(c, m, es) ==
  /\ Ops < MaxOps
  /\ LET r == Construct(heap, classes, c, m, es)
     IN /\ heap' = r.heap
        /\ insts' = Append(insts, [addr |-> r.res, cls |-> c, args |-> m])
  /\ UNCHANGED <<classes, ctors, maps, writes>>

\* heap[a][k] = WriteVal(k) somewhere in the calling program
Assign(a, k) ==
  /\ Ops < MaxOps
  /\ heap' = [heap EXCEPT ![a] = Set(@, k, WriteVal(k))]
  /\ writes' = writes + 1
  /\ UNCHANGED <<classes, ctors, maps, insts>>

\* delete heap[a][k]
Delete(a, k) ==
  /\ Ops < MaxOps
  /\ k \in DOMAIN heap[a].own
  /\ heap' = [heap EXCEPT ![a] = DeleteKey(@, k)]
  /\ writes' = writes + 1
  /\ UNCHANGED <<classes, ctors, maps, insts>>

Next ==
  \/ \E tag \in Labels : TaggedError(tag)
  \/ \E c \in DOMAIN classes : Extends(c)
  \/ \E M \in Payloads : Literal(M)
  \/ \E c \in DOMAIN classes, m \in maps \cup {NoArgs}, es \in Targets : New(c, m, es)
  \/ \E a \in DOMAIN heap, k \in Keys : Assign(a, k)
  \/ \E a \in DOMAIN heap, k \in Keys : Delete(a, k)

Spec == Init /\ [][Next]_vars

\* ---- vocabulary of the properties ----

AmbientFields == {"name", "message", "stack"}

Obj(i) == heap[insts[i].addr]
TagOf(c) == classes[c].tag
Range(f) == {f[i] : i \in DOMAIN f}

\* the step is a constructor call; Built is the call and BuiltObj the value it
\* returned, Payload the mapping it was passed (empty when there was none)
IsNew == Len(insts') = Len(insts) + 1
Built == insts'[Len(insts')]
BuiltObj == heap'[Built.addr]
Payload == IF Built.args = NoArgs THEN <<>> ELSE heap[Built.args].own

\* ---- properties ----

\* C1: the discriminant _tag of every value built by the constructor returned
\* from TaggedError(L) equals L, whatever payload was passed (a payload with
\* the key _tag included), and still equals L in every later state
C1_DiscriminantIsLabel ==
  \A i \in DOMAIN insts : Get(classes, Obj(i), "_tag") = TagOf(insts[i].cls)

\* C2: the value built with payload M has, for every key k of M, an own field
\* k holding M[k], and no own field beyond the keys of M, the discriminant and
\* the ambient error fields
C2_OwnFieldsArePayload ==
  [][IsNew =>
       /\ \A k \in DOMAIN Payload :
            k \in DOMAIN BuiltObj.own /\ BuiltObj.own[k] = Payload[k]
       /\ DOMAIN BuiltObj.own \subseteq
            DOMAIN Payload \cup {"_tag"} \cup AmbientFields]_vars

\* C3: a field assignment to the discriminant or to a payload field of a
\* produced value never changes the stored value
C3_AssignmentIneffective ==
  [][\A i \in DOMAIN insts :
       \A k \in DOMAIN Obj(i).own \ AmbientFields :
         k \in DOMAIN heap'[insts[i].addr].own
           => heap'[insts[i].addr].own[k] = Obj(i).own[k]]_vars

\* C4: the value built with no payload by the constructor of TaggedError(L)
\* has _tag equal to L and name equal to L
C4_NoPayloadTagAndName ==
  [][(IsNew /\ Built.args = NoArgs) =>
       /\ Get(classes, BuiltObj, "_tag") = TagOf(Built.cls)
       /\ Get(classes, BuiltObj, "name") = TagOf(Built.cls)]_vars

C4_Witness ==
  \E i \in DOMAIN insts :
    /\ insts[i].args = NoArgs
    /\ Get(classes, Obj(i), "_tag") = TagOf(insts[i].cls)
    /\ Get(classes, Obj(i), "name") = TagOf(insts[i].cls)

\* C5: two values built by the same constructor of TaggedError(L), whatever
\* the keys of their payloads, are distinct values, report the same
\* discriminant and the same name, and that name is L; the payload-less value
\* reports L for both, so every built value does
C5_SameTagAndName ==
  [][IsNew =>
       /\ \A j \in DOMAIN insts : insts[j].addr # Built.addr
       /\ Get(classes, BuiltObj, "name") = TagOf(Built.cls)
       /\ \A j \in DOMAIN insts :
            (insts[j].cls = Built.cls /\ insts[j].args = NoArgs /\ writes = 0)
              => Get(classes, BuiltObj, "_tag") = Get(classes, Obj(j), "_tag")]_vars

\* C6: two calls of TaggedError with the same label return two different
\* constructors, and a value built by one is rejected by instanceof the other
C6_SameLabelDistinctClasses ==
  \A i, j \in DOMAIN ctors :
    (i # j /\ TagOf(ctors[i]) = TagOf(ctors[j])) =>
      /\ ctors[i] # ctors[j]
      /\ \A n \in DOMAIN insts :
           insts[n].cls = ctors[i] => ~InstanceOf(classes, Obj(n), ctors[j])

C6_Witness ==
  \E i, j \in DOMAIN ctors : \E n, q \in DOMAIN insts :
    /\ i # j /\ TagOf(ctors[i]) = TagOf(ctors[j])
    /\ insts[n].cls = ctors[i] /\ insts[q].cls = ctors[j]
    /\ Get(classes, Obj(n), "_tag") = TagOf(ctors[i])
    /\ Get(classes, Obj(q), "_tag") = TagOf(ctors[i])
    /\ ~InstanceOf(classes, Obj(n), ctors[j])
    /\ ~InstanceOf(classes, Obj(q), ctors[i])

\* C7: every value built by a constructor C returned from TaggedError, with
\* or without a payload, is instanceof Error and instanceof C
C7_InstanceOfErrorAndClass ==
  [][(IsNew /\ Built.cls \in Range(ctors)) =>
       /\ InstanceOf(classes, BuiltObj, ErrorClass)
       /\ InstanceOf(classes, BuiltObj, Built.cls)]_vars

C7_Witness ==
  \E i \in DOMAIN insts :
    /\ insts[i].cls \in Range(ctors)
    /\ insts[i].args # NoArgs
    /\ "__proto__" \in DOMAIN heap[insts[i].args].own
    /\ InstanceOf(classes, Obj(i), ErrorClass)
    /\ InstanceOf(classes, Obj(i), insts[i].cls)

\* C8: a payload key that collides with name, message or _tag is accepted and
\* the payload's value wins: the built value's field of that name holds it
C8_PayloadWinsCollision ==
  [][IsNew =>
       \A k \in DOMAIN Payload \cap {"name", "message", "_tag"} :
         k \in DOMAIN BuiltObj.own /\ Get(classes, BuiltObj, k) = Payload[k]]_vars

C8_Witness ==
  \E i \in DOMAIN insts :
    /\ insts[i].args # NoArgs
    /\ {"_tag", "name"} \subseteq DOMAIN heap[insts[i].args].own
    /\ \A k \in {"_tag", "name"} :
         /\ Get(classes, Obj(i), k) = heap[insts[i].args].own[k]
         /\ Get(classes, Obj(i), k) # TagOf(insts[i].cls)

\* C9: the values a constructor builds are distinct objects, distinct from the
\* mapping passed in, and no assignment or deletion on one of them or on the
\* mapping changes another of them or the mapping
C9_IndependentInstances ==
  [][/\ \A i, j \in DOMAIN insts' : i # j => insts'[i].addr # insts'[j].addr
     /\ \A i \in DOMAIN insts' : insts'[i].addr \notin maps'
     /\ \A i, j \in DOMAIN insts :
          (i # j /\ heap'[insts[i].addr] # Obj(i)) => heap'[insts[j].addr] = Obj(j)
     /\ \A i \in DOMAIN insts : \A a \in maps :
          ~(heap'[insts[i].addr] # Obj(i) /\ heap'[a] # heap[a])]_vars

C9_Witness ==
  \E i, j \in DOMAIN insts :
    /\ i # j
    /\ insts[i].cls = insts[j].cls
    /\ insts[i].args = insts[j].args /\ insts[i].args # NoArgs
    /\ insts[i].addr # insts[j].addr
    /\ writes > 0
    /\ heap[insts[i].args].own # <<>>
    /\ Obj(i) # Obj(j)

\* C10: a value built with new S(...), S a class declared as extending the
\* constructor returned from TaggedError(L), is instanceof S
C10_SubclassIdentity ==
  [][(IsNew /\ classes[Built.cls].parent # ErrorClass) =>
       InstanceOf(classes, BuiltObj, Built.cls)]_vars
====
